---- MODULE Spec2Model ----
(***************************************************************************)
(* Model of src/lib/firebase/firestore.js: the restaurant documents, their *)
(* ratings sub-collections, the rating transaction of                      *)
(* addReviewToRestaurant, the photo update of                              *)
(* updateRestaurantImageReference and the seeding loop of                  *)
(* addFakeRestaurantsAndReviews, run against a Firestore backend with      *)
(* optimistic transactions (a read version per document, checked at        *)
(* commit, retried on conflict).                                           *)
(*                                                                         *)
(* JavaScript values are modelled by what the code does with them:         *)
(*   - a document is a record whose DOMAIN is the set of fields present,   *)
(*     so a missing field is a field outside the DOMAIN;                   *)
(*   - review.rating is a tagged value, a number or a numeric string (form *)
(*     data), and Number() converts it;                                    *)
(*   - avgRating is the exact quotient, kept as a reduced fraction.        *)
(***************************************************************************)
EXTENDS Integers, Sequences, FiniteSets, TLC

(* ---------------------------- bounds ---------------------------------- *)
NumClients == 2
MaxFake == 1
MaxAttempts == 2
MaxClock == 1
NumListeners == 2
MaxPending == 2
MaxUnsubscribe == 2

(* ------------------------- JavaScript values --------------------------- *)
Undefined == "<undefined>"

Num(n) == [type |-> "number", n |-> n]

Str(s) == [type |-> "string", s |-> s]

Digits == [s \in {"0", "1", "2", "3", "4", "5"} |->
             CASE s = "0" -> 0 [] s = "1" -> 1 [] s = "2" -> 2
               [] s = "3" -> 3 [] s = "4" -> 4 [] s = "5" -> 5]

\* Number(v) of a number or of a numeric string
Number(v) == IF v.type = "number" THEN v.n ELSE Digits[v.s]

\* !x for the identifiers the callers pass: undefined and "" are falsy
Falsy(x) == x \in {Undefined, ""}

RECURSIVE GCD(_, _)
GCD(a, b) == IF b = 0 THEN a ELSE GCD(b, a % b)

\* a / b for b > 0, as a fraction in lowest terms
Quotient(a, b) == LET g == GCD(a, b) IN [num |-> a \div g, den |-> b \div g]

\* d.f || 0 : a missing field and 0 both give 0
FieldOrZero(d, f) == IF f \in DOMAIN d THEN d[f] ELSE 0

(* --------------------------- identifiers ------------------------------ *)
Clients == 1 .. NumClients

\* the ids addDoc generates for new restaurants, in the order it generates them
RestIdSeq == <<"r1", "r2", "r3">>

\* the restaurant that is in the database from the start
FirstRestaurant == "r0"

RestIds == {FirstRestaurant} \cup {RestIdSeq[i] : i \in 1 .. MaxFake}

NoReview == [undefined |-> TRUE]

Review(rating) == [rating |-> rating, text |-> "good", userId |-> "u1"]

\* what a caller may pass as restaurantId and as review
RestaurantIdArgs == RestIds \cup {Undefined, ""}

ReviewArgs == {NoReview, Review(Str("5")), Review(Num(4))}

PhotoUrls == {"url1"}

(* ------------------ generateFakeRestaurantsAndReviews ------------------ *)
\* A seeded restaurant with two ratings and the aggregate of those ratings
FakeRated ==
  [restaurantData |-> [name |-> "A", category |-> "Italian", city |-> "Rome",
                       price |-> 2, photo |-> "photo0", timestamp |-> 0,
                       numRatings |-> 2, sumRating |-> 7,
                       avgRating |-> Quotient(7, 2)],
   ratingsData |-> << [rating |-> Num(3), text |-> "ok", userId |-> "u0",
                       timestamp |-> 0],
                      [rating |-> Num(4), text |-> "fine", userId |-> "u0",
                       timestamp |-> 0] >>]

\* A seeded restaurant with no ratings and no aggregate fields yet
FakeUnrated ==
  [restaurantData |-> [name |-> "B", category |-> "Thai", city |-> "Oslo",
                       price |-> 1, photo |-> "photo0", timestamp |-> 0],
   ratingsData |-> << >>]

\* A seeded restaurant with no ratings and an aggregate of zero
FakeZero ==
  [restaurantData |-> [name |-> "C", category |-> "Thai", city |-> "Rome",
                       price |-> 3, photo |-> "photo0", timestamp |-> 0,
                       numRatings |-> 0, sumRating |-> 0,
                       avgRating |-> Quotient(0, 1)],
   ratingsData |-> << >>]

FakeEntries == {FakeRated, FakeUnrated, FakeZero}

\* the arrays the generator may return
generateFakeRestaurantsAndReviews ==
  UNION {[1 .. n -> FakeEntries] : n \in 0 .. MaxFake}

(* ------------------------------ state --------------------------------- *)
VARIABLES
  restaurants,  \* restaurant id -> [data, version] for the documents that exist
  ratings,      \* rating doc id -> [parent, data] for the rating documents
  now,          \* the last time new Date() returned
  sub,          \* per client: its addReviewToRestaurant call
  photo,        \* the updateRestaurantImageReference call
  seed,         \* the addFakeRestaurantsAndReviews call
  seeded,       \* history: restaurant id -> the entry it was created from
  qcall,        \* the getRestaurants call
  listeners,    \* per listener: its onSnapshot subscription
  tomb,         \* the writes made to restaurant documents that were deleted since
  image,        \* the updateRestaurantImage call
  component     \* the Restaurant component: its state and its image handler

vars == <<restaurants, ratings, now, sub, photo, seed, seeded, qcall, listeners, tomb,
          image, component>>

\* Automatically generated document ids are unique: the id of the rating
\* document of client c, and of the j-th rating of the i-th seeded entry
NoRef == <<"none", 0, 0>>

ClientRatingId(c) == <<"client", c, 0>>

SeedRatingId(i, j) == <<"seed", i, j>>

IdleSub == [pc |-> "idle", restaurantId |-> Undefined, review |-> NoReview,
            newRatingDocument |-> NoRef, snap |-> [exists |-> FALSE], writes |-> << >>,
            attempts |-> 0, error |-> "none", result |-> "pending"]

IdlePhoto == [pc |-> "idle", restaurantId |-> Undefined, url |-> "", result |-> "pending"]

NoEntry == [restaurantData |-> << >>, ratingsData |-> << >>]

\* data: the entries the for loop has not reached yet; entry: the current one
IdleSeed == [pc |-> "idle", data |-> << >>, i |-> 0, entry |-> NoEntry,
             docRef |-> Undefined, j |-> 0]

IdleQuery == [pc |-> "idle", filters |-> << >>, q |-> << >>, results |-> << >>]

\* the subscriptions a run may hold at once
Listeners == 1 .. NumListeners

IdleListener ==
  [pc |-> "idle", kind |-> "none", cb |-> "undefined", restaurantId |-> Undefined,
   q |-> << >>, since |-> 0, sent |-> [sent |-> FALSE], queue |-> << >>,
   last |-> [delivered |-> FALSE], error |-> "none", unsubs |-> 0]

NoImage == [null |-> TRUE]

IdleImage == [pc |-> "idle", restaurantId |-> Undefined, image |-> NoImage,
              publicImageUrl |-> Undefined, result |-> "pending"]

\* Timestamp.toDate(): seconds to a Date in milliseconds
ToDate(timestamp) == [ms |-> timestamp * 1000]

\* {id: doc.id, ...doc.data(), timestamp: doc.data().timestamp.toDate()}
PlainObject(id, data) ==
  [f \in DOMAIN data \cup {"id", "timestamp"} |->
     IF f = "id" THEN id
     ELSE IF f = "timestamp" THEN ToDate(data.timestamp)
     ELSE data[f]]

\* useState(initialRestaurant): the page renders the component with the
\* restaurant it read when the page was requested
initialRestaurant == PlainObject(FirstRestaurant, restaurants[FirstRestaurant].data)

\* The database holds one restaurant that an earlier, complete run of the
\* seeding wrote: one entry of the generator and all of its ratings.
Init ==
  /\ \E entry \in FakeEntries :
       /\ restaurants = [r \in {FirstRestaurant} |->
                           [data |-> entry.restaurantData, version |-> 1]]
       /\ ratings = [k \in {SeedRatingId(0, j) : j \in 1 .. Len(entry.ratingsData)} |->
                       [parent |-> FirstRestaurant, data |-> entry.ratingsData[k[3]]]]
       /\ seeded = [r \in {FirstRestaurant} |-> entry]
  /\ now = 0
  /\ sub = [c \in Clients |-> IdleSub]
  /\ photo = IdlePhoto
  /\ seed = IdleSeed
  /\ qcall = IdleQuery
  /\ listeners = [l \in Listeners |-> IdleListener]
  /\ tomb = 0
  /\ image = IdleImage
  /\ component = [restaurantDetails |-> initialRestaurant, pc |-> "idle",
                  closure |-> << >>]


(* ------------------------- Firestore backend --------------------------- *)
Exists(rid) == rid \in DOMAIN restaurants

\* getDoc / transaction.get : the snapshot of a restaurant document
GetSnapshot(rid) ==
  IF Exists(rid)
    THEN [exists |-> TRUE, data |-> restaurants[rid].data,
          version |-> restaurants[rid].version]
    ELSE [exists |-> FALSE]

\* variant: the write replaces the document (a set without merge)
MergeFieldsReplace(data, fields) == fields

\* update semantics: the given fields replace or add, the others stay
MergeFields(data, fields) ==
  [f \in DOMAIN data \cup DOMAIN fields |->
     IF f \in DOMAIN fields THEN fields[f] ELSE data[f]]

\* the document after an update write
UpdatedDoc(d, fields) ==
  [data |-> MergeFields(d.data, fields), version |-> d.version + 1]

Put(store, key, value) ==
  [k \in DOMAIN store \cup {key} |-> IF k = key THEN value ELSE store[k]]

(* -------------------------- updateWithRating --------------------------- *)
\* variant: the increment is forgotten
NewNumRatingsNoIncrement(data) ==
  IF FieldOrZero(data, "numRatings") # 0 THEN data.numRatings ELSE 1

\* data?.numRatings ? data.numRatings + 1 : 1
NewNumRatings(data) ==
  IF FieldOrZero(data, "numRatings") # 0 THEN data.numRatings + 1 ELSE 1

\* variant: the sum starts again from the new rating
NewSumRatingRestart(data, review) == Number(review.rating)

\* (data?.sumRating || 0) + Number(review.rating)
NewSumRating(data, review) ==
  FieldOrZero(data, "sumRating") + Number(review.rating)

\* variant: the average is not part of the update
AggregateFieldsNoAverage(data, review) ==
  [numRatings |-> NewNumRatings(data),
   sumRating |-> NewSumRating(data, review)]

\* the fields passed to transaction.update
AggregateFields(data, review) ==
  [numRatings |-> NewNumRatings(data),
   sumRating |-> NewSumRating(data, review),
   avgRating |-> Quotient(NewSumRating(data, review), NewNumRatings(data))]

\* the document passed to transaction.set: {...review, timestamp}
RatingDocument(review, t) ==
  [f \in DOMAIN review \cup {"timestamp"} |->
     IF f = "timestamp" THEN t ELSE review[f]]

\* variant: a missing restaurant is treated as an empty one
updateWithRatingCreating(snap, review, t) ==
  [error |-> "none",
   update |-> AggregateFields(IF snap.exists THEN snap.data ELSE << >>, review),
   set |-> RatingDocument(review, t)]

\* One run of the update function on the snapshot read by transaction.get:
\* either the two buffered writes, or the error of transaction.update on a
\* document that does not exist.
updateWithRating(snap, review, t) ==
  IF snap.exists
    THEN [error |-> "none",
          update |-> AggregateFields(snap.data, review),
          set |-> RatingDocument(review, t)]
    ELSE [error |-> "not-found"]

(* ------------------------ addReviewToRestaurant ------------------------ *)
\* variant: the review argument is not checked
ValidationErrorIdOnly(restaurantId, review) ==
  IF Falsy(restaurantId) THEN "No restaurant ID has been provided."
  ELSE "none"

\* the two argument checks in front of the try block
ValidationError(restaurantId, review) ==
  IF Falsy(restaurantId) THEN "No restaurant ID has been provided."
  ELSE IF review = NoReview THEN "A valid review has not been provided."
  ELSE "none"

\* variant: the catch block logs and does not throw
CatchBlockSwallow(error) == "resolved"

\* the catch block: log, then throw error
CatchBlock(error) == error

\* variant: a plain read followed by a plain write, no precondition
ReadNeverChecked(snap, rid) == Exists(rid)

\* commit precondition of the transaction: the document read is unchanged
ReadStillCurrent(snap, rid) ==
  snap.exists /\ Exists(rid) /\ restaurants[rid].version = snap.version

\* variant: the aggregate update goes to every restaurant
TransactionUpdateEvery(store, rid, fields) ==
  [r \in DOMAIN store |-> UpdatedDoc(store[r], fields)]

\* variant: the aggregate update is not part of the commit
TransactionUpdateDropped(store, rid, fields) == store

\* the commit applies transaction.update to the restaurant document ...
TransactionUpdate(store, rid, fields) ==
  Put(store, rid, UpdatedDoc(store[rid], fields))

\* variant: the review is written over the first seeded rating document
TransactionSetOverwriting(store, id, parent, data) ==
  Put(store, <<"seed", 0, 1>>, [parent |-> parent, data |-> data])

\* variant: the rating document is not part of the commit
TransactionSetDropped(store, id, parent, data) == store

\* ... and transaction.set to the new rating document
TransactionSet(store, id, parent, data) ==
  Put(store, id, [parent |-> parent, data |-> data])

\* the calls of the store leave the reads and the subscriptions alone
WatchUnchanged == UNCHANGED <<qcall, listeners, tomb, image, component>>

SubUnchanged == UNCHANGED <<photo, seed, seeded>> /\ WatchUnchanged

\* the call has returned: its locals are gone, its arguments and outcome stay
Returned(s, result) ==
  [s EXCEPT !.pc = "returned", !.snap = [exists |-> FALSE], !.writes = << >>,
            !.attempts = 0, !.error = "none", !.result = result]

\* variant: a rejected transaction is started again
CaughtRestarting(s, error) ==
  [s EXCEPT !.pc = "runTransaction", !.snap = [exists |-> FALSE], !.writes = << >>,
            !.attempts = 0, !.error = error]

\* runTransaction has rejected: control is in the catch block
Caught(s, error) ==
  [s EXCEPT !.pc = "catch", !.snap = [exists |-> FALSE], !.writes = << >>,
            !.attempts = 0, !.error = error]

\* the call, up to the first await
AddReviewToRestaurant(c, restaurantId, review) ==
  /\ sub[c].pc = "idle"
  /\ \A k \in Clients : k < c => sub[k].pc # "idle"  \* clients numbered in call order
  /\ LET err == ValidationError(restaurantId, review) IN
       IF err # "none"
         THEN /\ sub' = [sub EXCEPT ![c] =
                   [@ EXCEPT !.pc = "returned", !.restaurantId = restaurantId,
                             !.review = review, !.result = err]]
         ELSE /\ sub' = [sub EXCEPT ![c] =
                   [@ EXCEPT !.pc = "runTransaction", !.restaurantId = restaurantId,
                             !.review = review,
                             !.newRatingDocument = ClientRatingId(c)]]
  /\ UNCHANGED <<restaurants, ratings, now>>
  /\ SubUnchanged

\* one attempt: transaction.get and the update function
TransactionGet(c) ==
  /\ sub[c].pc = "runTransaction"
  /\ now' \in now .. MaxClock   \* new Date(): time has passed since the last reading
  /\ LET snap == GetSnapshot(sub[c].restaurantId)
         w == updateWithRating(snap, sub[c].review, now')
     IN sub' = [sub EXCEPT ![c] =
          IF w.error = "none"
            THEN [@ EXCEPT !.pc = "commit", !.snap = snap, !.writes = w]
            ELSE Caught(@, w.error)]
  /\ UNCHANGED <<restaurants, ratings>>
  /\ SubUnchanged

\* the commit of an attempt: both writes at once, or a conflict
TransactionCommit(c) ==
  /\ sub[c].pc = "commit"
  /\ LET rid == sub[c].restaurantId IN
       IF ReadStillCurrent(sub[c].snap, rid)
         THEN /\ restaurants' = TransactionUpdate(restaurants, rid,
                     sub[c].writes.update)
              /\ ratings' = TransactionSet(ratings, sub[c].newRatingDocument,
                     rid, sub[c].writes.set)
              /\ sub' = [sub EXCEPT ![c] = Returned(@, "resolved")]
         ELSE /\ UNCHANGED <<restaurants, ratings>>
              /\ sub' = [sub EXCEPT ![c] =
                     IF sub[c].attempts + 1 < MaxAttempts
                       THEN [@ EXCEPT !.pc = "runTransaction",
                                      !.attempts = @ + 1]
                       ELSE Caught(@, "aborted")]
  /\ UNCHANGED now
  /\ SubUnchanged

\* the backend is unavailable: runTransaction rejects
TransactionUnavailable(c) ==
  /\ sub[c].pc \in {"runTransaction", "commit"}
  /\ sub' = [sub EXCEPT ![c] = Caught(@, "unavailable")]
  /\ UNCHANGED <<restaurants, ratings, now>>
  /\ SubUnchanged

\* catch (error) { console.error(...); throw error; }
CatchRethrow(c) ==
  /\ sub[c].pc = "catch"
  /\ sub' = [sub EXCEPT ![c] = Returned(@, CatchBlock(sub[c].error))]
  /\ UNCHANGED <<restaurants, ratings, now>>
  /\ SubUnchanged

(* ------------------- updateRestaurantImageReference -------------------- *)
\* variant: the photo is written together with a stale copy of the aggregate
PhotoFieldsWithAggregate(publicImageUrl) ==
  [photo |-> publicImageUrl, numRatings |-> 0, sumRating |-> 0,
   avgRating |-> Quotient(0, 1)]

\* the object passed to updateDoc
PhotoFields(publicImageUrl) == [photo |-> publicImageUrl]

\* doc(collection(db, "restaurants"), restaurantId): an empty id is rejected
restaurantRef(restaurantId, publicImageUrl) ==
  IF Falsy(restaurantId)
    THEN [photo EXCEPT !.pc = "returned", !.restaurantId = restaurantId,
                       !.url = publicImageUrl, !.result = "invalid-argument"]
    ELSE [photo EXCEPT !.pc = "updateDoc", !.restaurantId = restaurantId,
                       !.url = publicImageUrl]

UpdateRestaurantImageReference(restaurantId, publicImageUrl) ==
  /\ photo.pc = "idle"
  /\ photo' = restaurantRef(restaurantId, publicImageUrl)
  /\ UNCHANGED <<restaurants, ratings, now, sub, seed, seeded>>
  /\ WatchUnchanged

\* await updateDoc(restaurantRef, { photo: publicImageUrl })
UpdateDoc ==
  /\ photo.pc = "updateDoc"
  /\ IF Exists(photo.restaurantId)
       THEN /\ restaurants' = Put(restaurants, photo.restaurantId,
                   UpdatedDoc(restaurants[photo.restaurantId], PhotoFields(photo.url)))
            /\ photo' = [photo EXCEPT !.pc = "returned", !.result = "resolved"]
       ELSE /\ UNCHANGED restaurants
            /\ photo' = [photo EXCEPT !.pc = "returned", !.result = "not-found"]
  /\ UNCHANGED <<ratings, now, sub, seed, seeded>>
  /\ WatchUnchanged

UpdateDocUnavailable ==
  /\ photo.pc = "updateDoc"
  /\ photo' = [photo EXCEPT !.pc = "returned", !.result = "unavailable"]
  /\ UNCHANGED <<restaurants, ratings, now, sub, seed, seeded>>
  /\ WatchUnchanged

(* ------------------------ updateRestaurantImage ------------------------ *)
\* the files a caller may pass: none, one without a name, one with a name
ImageArgs == {NoImage, [name |-> ""], [name |-> "a.png"]}

\* variant: the name of the image is not looked at
ImageErrorUnnamed(restaurantId, img) ==
  IF Falsy(restaurantId) THEN "No restaurant ID has been provided."
  ELSE IF img = NoImage THEN "A valid image has not been provided."
  ELSE "none"

\* the two checks at the top of the try block
ImageError(restaurantId, img) ==
  IF Falsy(restaurantId) THEN "No restaurant ID has been provided."
  ELSE IF img = NoImage \/ Falsy(img.name) THEN "A valid image has not been provided."
  ELSE "none"

\* `images/${restaurantId}/${image.name}`
filePath(restaurantId, img) == <<"images", restaurantId, img.name>>

\* the download URL of the object stored at a path: one URL per path
getDownloadURL(path) ==
  IF path = <<"images", FirstRestaurant, "a.png">> THEN "url1" ELSE "url2"

\* the call after its checks: a throw inside the try block is caught and
\* logged, and the function returns undefined
updateRestaurantImage(restaurantId, img) ==
  IF ImageError(restaurantId, img) # "none"
    THEN [image EXCEPT !.pc = "returned", !.restaurantId = restaurantId,
                       !.image = img, !.result = Undefined]
    ELSE [image EXCEPT !.pc = "uploadImage", !.restaurantId = restaurantId,
                       !.image = img]

UpdateRestaurantImage(restaurantId, img) ==
  /\ image.pc = "idle"
  /\ image' = updateRestaurantImage(restaurantId, img)
  /\ UNCHANGED <<restaurants, ratings, now, sub, photo, seed, seeded, qcall,
                 listeners, tomb, component>>

\* uploadImage resolves with the URL, and updateRestaurantImageReference is called
UploadImage ==
  /\ image.pc = "uploadImage"
  /\ photo.pc = "idle"
  /\ LET publicImageUrl == getDownloadURL(filePath(image.restaurantId, image.image)) IN
       /\ image' = [image EXCEPT !.pc = "updateRestaurantImageReference",
                                 !.publicImageUrl = publicImageUrl]
       /\ photo' = restaurantRef(image.restaurantId, publicImageUrl)
  /\ UNCHANGED <<restaurants, ratings, now, sub, seed, seeded, qcall, listeners,
                 tomb, component>>

\* uploadBytesResumable or getDownloadURL rejects: caught, undefined is returned
UploadImageFails ==
  /\ image.pc = "uploadImage"
  /\ image' = [image EXCEPT !.pc = "returned", !.result = Undefined]
  /\ UNCHANGED <<restaurants, ratings, now, sub, photo, seed, seeded, qcall,
                 listeners, tomb, component>>

\* updateRestaurantImageReference has settled: return publicImageUrl, or
\* undefined from the catch block when it rejected
UpdateRestaurantImageReturns ==
  /\ image.pc = "updateRestaurantImageReference"
  /\ photo.pc = "returned"
  /\ image' = [image EXCEPT !.pc = "returned",
                            !.result = IF photo.result = "resolved"
                                         THEN image.publicImageUrl ELSE Undefined]
  /\ UNCHANGED <<restaurants, ratings, now, sub, photo, seed, seeded, qcall,
                 listeners, tomb, component>>

(* --------------------------- Restaurant.jsx ---------------------------- *)
\* what the file input may hold: target.files[0], or nothing
Files == {NoImage, [name |-> "a.png"]}

\* handleRestaurantImage up to its await: the function was created by the
\* render that showed restaurantDetails, and keeps that value
HandleRestaurantImage(id, file) ==
  /\ component.pc = "idle"
  /\ image.pc = "idle"
  /\ file # NoImage
  /\ image' = updateRestaurantImage(id, file)
  /\ component' = [component EXCEPT !.pc = "await",
                                    !.closure = component.restaurantDetails]
  /\ UNCHANGED <<restaurants, ratings, now, sub, photo, seed, seeded, qcall,
                 listeners, tomb>>

\* setRestaurantDetails({ ...restaurantDetails, photo: imageURL })
HandleRestaurantImageResumes ==
  /\ component.pc = "await"
  /\ image.pc = "returned"
  /\ component' = [component EXCEPT !.pc = "done",
       !.restaurantDetails = MergeFields(component.closure, [photo |-> image.result])]
  /\ UNCHANGED <<restaurants, ratings, now, sub, photo, seed, seeded, qcall,
                 listeners, tomb, image>>

(* -------------------- addFakeRestaurantsAndReviews --------------------- *)
\* the id addDoc generates for a new restaurant: one not in use
NewRestaurantId ==
  RestIdSeq[CHOOSE i \in 1 .. Len(RestIdSeq) :
              /\ ~Exists(RestIdSeq[i])
              /\ \A k \in 1 .. i - 1 : Exists(RestIdSeq[k])]

\* the next iteration of the outer for loop
NextEntry(s) ==
  IF s.data # << >>
    THEN [s EXCEPT !.pc = "addRestaurant", !.i = @ + 1, !.entry = Head(s.data),
                   !.data = Tail(s.data), !.docRef = Undefined, !.j = 0]
    ELSE [s EXCEPT !.pc = "done", !.entry = NoEntry, !.docRef = Undefined, !.j = 0]

AddFakeRestaurantsAndReviews ==
  /\ seed.pc = "idle"
  /\ \E data \in generateFakeRestaurantsAndReviews :
       seed' = NextEntry([seed EXCEPT !.data = data])
  /\ UNCHANGED <<restaurants, ratings, now, sub, photo, seeded>>
  /\ WatchUnchanged

\* await addDoc(collection(db, "restaurants"), restaurantData)
AddRestaurantDoc ==
  /\ seed.pc = "addRestaurant"
  /\ LET entry == seed.entry
         id == NewRestaurantId
     IN /\ restaurants' = Put(restaurants, id,
               [data |-> entry.restaurantData, version |-> 1])
        /\ seeded' = Put(seeded, id, entry)
        /\ seed' = IF Len(entry.ratingsData) = 0
             THEN NextEntry(seed)
             ELSE [seed EXCEPT !.pc = "addRating", !.docRef = id, !.j = 1]
  /\ UNCHANGED <<ratings, now, sub, photo>>
  /\ WatchUnchanged

\* await addDoc(collection(db, "restaurants", docRef.id, "ratings"), ratingData)
AddRatingDoc ==
  /\ seed.pc = "addRating"
  /\ LET entry == seed.entry IN
       /\ ratings' = Put(ratings, SeedRatingId(seed.i, seed.j),
              [parent |-> seed.docRef, data |-> entry.ratingsData[seed.j]])
       /\ seed' = IF seed.j < Len(entry.ratingsData)
            THEN [seed EXCEPT !.j = @ + 1]
            ELSE NextEntry(seed)
  /\ UNCHANGED <<restaurants, now, sub, photo, seeded>>
  /\ WatchUnchanged

\* an addDoc fails: the catch block logs and the loop goes to the next entry
AddDocFails ==
  /\ seed.pc \in {"addRestaurant", "addRating"}
  /\ seed' = NextEntry(seed)
  /\ UNCHANGED <<restaurants, ratings, now, sub, photo, seeded>>
  /\ WatchUnchanged

(* ------------------------- the query composer -------------------------- *)
\* a variable that holds undefined, and the truthiness of a filter value
JSUndefined == [type |-> "undefined"]

Truthy(v) ==
  CASE v.type = "string" -> v.s # ""
    [] v.type = "number" -> v.n # 0
    [] OTHER -> FALSE

\* A filters object is its properties in insertion order
Property(key, value) == [key |-> key, value |-> value]

Keys(obj) == {obj[i].key : i \in 1 .. Len(obj)}

\* destructuring: the value of the property, undefined when there is none
Get(obj, key) ==
  IF key \in Keys(obj)
    THEN obj[CHOOSE i \in 1 .. Len(obj) : obj[i].key = key].value
    ELSE JSUndefined

\* what a caller may pass as filters
FilterProperties ==
  {Property("category", v) : v \in {Str(""), Str("Thai")}}
    \cup {Property("city", Str("Rome")), Property("price", Num(3))}
    \cup {Property("sort", v) : v \in {Str("Rating"), Str("Review"), Str("unknown")}}

FilterObjects ==
  UNION {{obj \in [1 .. n -> FilterProperties] :
            \A i, j \in 1 .. n : obj[i].key = obj[j].key => i = j} : n \in 0 .. 4}

\* collection(db, "restaurants") and collection(db, "restaurants", id, "ratings")
RestaurantsCollection == [name |-> "restaurants"]

RatingsCollection(restaurantId) == [name |-> "ratings", parent |-> restaurantId]

where(field, op, value) == [type |-> "where", field |-> field, op |-> op, value |-> value]

orderBy(field, direction) == [type |-> "orderBy", field |-> field, direction |-> direction]

\* query(collection) and query(q, constraint): a new query value, q is not changed
collectionQuery(coll) == [collection |-> coll, constraints |-> << >>]

query(q, constraint) == [q EXCEPT !.constraints = Append(@, constraint)]

\* variant: the filters are applied in the order of the keys of the object
RECURSIVE applyQueryFiltersInKeyOrder(_, _)
applyQueryFiltersInKeyOrder(q, filters) ==
  IF filters = << >> THEN q
  ELSE LET p == Head(filters)
           q1 == IF p.key = "sort"
                   THEN IF p.value = Str("Review")
                          THEN query(q, orderBy("numRatings", "desc"))
                          ELSE query(q, orderBy("avgRating", "desc"))
                   ELSE IF Truthy(p.value)
                          THEN query(q, where(p.key, "==", p.value))
                          ELSE q
       IN applyQueryFiltersInKeyOrder(q1, Tail(filters))

applyQueryFilters(q, filters) ==
  LET category == Get(filters, "category")
      city == Get(filters, "city")
      price == Get(filters, "price")
      sort == Get(filters, "sort")
      q1 == IF Truthy(category) THEN query(q, where("category", "==", category)) ELSE q
      q2 == IF Truthy(city) THEN query(q1, where("city", "==", city)) ELSE q1
      q3 == IF Truthy(price) THEN query(q2, where("price", "==", price)) ELSE q2
  IN IF sort = Str("Rating") \/ ~Truthy(sort)
       THEN query(q3, orderBy("avgRating", "desc"))
       ELSE IF sort = Str("Review")
              THEN query(q3, orderBy("numRatings", "desc"))
              ELSE q3

WhereClauses(q) == SelectSeq(q.constraints, LAMBDA c : c.type = "where")

OrderClauses(q) == SelectSeq(q.constraints, LAMBDA c : c.type = "orderBy")

(* -------------------------- running a query ---------------------------- *)
\* the documents of a collection and their data
Docs(coll) ==
  IF coll.name = "restaurants" THEN DOMAIN restaurants
  ELSE {k \in DOMAIN ratings : ratings[k].parent = coll.parent}

DocData(coll, id) ==
  IF coll.name = "restaurants" THEN restaurants[id].data ELSE ratings[id].data

\* the stored value of a field with its type: equality never holds across types
StringFields == {"name", "category", "city", "photo", "text", "userId"}

FieldValue(data, f) ==
  IF f \in StringFields THEN Str(data[f])
  ELSE IF f = "rating" THEN data[f]
  ELSE Num(data[f])

\* a where clause holds of a document that has the field with an equal value
Matches(data, clause) ==
  clause.field \in DOMAIN data /\ FieldValue(data, clause.field) = clause.value

\* a document is in the result when every where clause holds of it and it has
\* every field the query orders by
Selected(q) ==
  {id \in Docs(q.collection) :
     LET data == DocData(q.collection, id) IN
       /\ \A i \in 1 .. Len(WhereClauses(q)) : Matches(data, WhereClauses(q)[i])
       /\ \A i \in 1 .. Len(OrderClauses(q)) : OrderClauses(q)[i].field \in DOMAIN data}

\* the order of document ids
DocRank(coll, id) ==
  IF coll.name = "restaurants"
    THEN IF id = FirstRestaurant THEN 0
         ELSE CHOOSE i \in 1 .. Len(RestIdSeq) : RestIdSeq[i] = id
    ELSE (IF id[1] = "seed" THEN 0 ELSE 100) + 10 * id[2] + id[3]

\* the value a document is ordered by, as a fraction
OrderValue(data, f) ==
  IF f = "avgRating" THEN data[f] ELSE [num |-> data[f], den |-> 1]

FractionLess(a, b) == a.num * b.den < b.num * a.den

\* x comes before y in the result: by the ordering clause, then by document id
\* in the direction of the clause; by ascending document id without a clause
Precedes(q, x, y) ==
  IF OrderClauses(q) = << >> THEN DocRank(q.collection, x) < DocRank(q.collection, y)
  ELSE LET clause == OrderClauses(q)[1]
           kx == OrderValue(DocData(q.collection, x), clause.field)
           ky == OrderValue(DocData(q.collection, y), clause.field)
       IN IF clause.direction = "desc"
            THEN FractionLess(ky, kx) \/ (~FractionLess(kx, ky) /\ DocRank(q.collection, x) > DocRank(q.collection, y))
            ELSE FractionLess(kx, ky) \/ (~FractionLess(ky, kx) /\ DocRank(q.collection, x) < DocRank(q.collection, y))

RECURSIVE Sorted(_, _)
Sorted(q, ids) ==
  IF ids = {} THEN << >>
  ELSE LET first == CHOOSE x \in ids : \A y \in ids \ {x} : Precedes(q, x, y)
       IN <<first>> \o Sorted(q, ids \ {first})

\* getDocs(q).docs and querySnapshot.docs: the ids of the result, in order
RunQuery(q) == Sorted(q, Selected(q))

\* docs.map(...) over the result of a query
MapDocs(q) ==
  LET docs == RunQuery(q) IN
    [i \in 1 .. Len(docs) |-> PlainObject(docs[i], DocData(q.collection, docs[i]))]

(* ---------------------------- getRestaurants --------------------------- *)
QueryUnchanged == UNCHANGED <<restaurants, ratings, now, sub, photo, seed, seeded,
                              listeners, tomb, image, component>>

\* the call, up to await getDocs(q)
GetRestaurants(filters) ==
  /\ qcall.pc = "idle"
  /\ qcall' = [pc |-> "getDocs", filters |-> filters,
               q |-> applyQueryFilters(collectionQuery(RestaurantsCollection), filters),
               results |-> << >>]
  /\ QueryUnchanged

\* getDocs resolves; the documents are mapped to plain objects
GetDocs ==
  /\ qcall.pc = "getDocs"
  /\ qcall' = [qcall EXCEPT !.pc = "returned", !.results = MapDocs(qcall.q)]
  /\ QueryUnchanged

(* ------------------------------ onSnapshot ----------------------------- *)
\* typeof cb, for the observers a caller may pass
Callbacks == {"function", "undefined"}

Null == [type |-> "null"]

RECURSIVE VersionSum(_)
VersionSum(S) ==
  IF S = {} THEN 0
  ELSE LET r == CHOOSE x \in S : TRUE
       IN restaurants[r].version + VersionSum(S \ {r})

\* the number of writes the backend has committed: the commit time of the
\* current contents of the database
CommitStamp == tomb + VersionSum(DOMAIN restaurants) + Cardinality(DOMAIN ratings)

\* docSnap of a document reference
DocumentSnapshot(rid) ==
  IF Exists(rid)
    THEN [exists |-> TRUE, id |-> rid, data |-> restaurants[rid].data]
    ELSE [exists |-> FALSE, id |-> rid]

\* querySnapshot.docs of a query
QuerySnapshot(q) ==
  LET docs == RunQuery(q) IN
    [i \in 1 .. Len(docs) |-> [id |-> docs[i], data |-> DocData(q.collection, docs[i])]]

\* what the backend holds for a listener now
Snapshot(s) ==
  IF s.kind = "document" THEN DocumentSnapshot(s.restaurantId) ELSE QuerySnapshot(s.q)

NoSnapshot == [sent |-> FALSE]

NoDelivery == [delivered |-> FALSE]

\* the call returned undefined after console.log: nothing was registered
ReturnedUndefined(kind, cb, rid) ==
  [pc |-> "returned", kind |-> kind, cb |-> cb, restaurantId |-> rid, q |-> << >>,
   since |-> 0, sent |-> NoSnapshot, queue |-> << >>, last |-> NoDelivery,
   error |-> "none", unsubs |-> 0]

\* onSnapshot(target, listener) registered the listener and returned unsubscribe
onSnapshot(kind, cb, rid, q) ==
  [pc |-> "active", kind |-> kind, cb |-> cb, restaurantId |-> rid, q |-> q,
   since |-> CommitStamp, sent |-> NoSnapshot, queue |-> << >>, last |-> NoDelivery,
   error |-> "none", unsubs |-> 0]

\* typeof cb !== "function"; the component passes an arrow function
NotCallable(cb) == cb \notin {"function", "setRestaurantDetails"}

\* variant: only undefined is rejected
InvalidIdUndefinedOnly(restaurantId) == restaurantId = Undefined

\* !restaurantId
InvalidId(restaurantId) == Falsy(restaurantId)

\* the query of the ratings sub-collection, newest first
ReviewsQuery(restaurantId) ==
  query(collectionQuery(RatingsCollection(restaurantId)), orderBy("timestamp", "desc"))

ListenersUnchanged == UNCHANGED <<restaurants, ratings, now, sub, photo, seed, seeded,
                                  qcall, tomb, image, component>>

\* listeners are numbered in the order of the subscribe calls
NextListener(l) ==
  /\ listeners[l].pc = "idle"
  /\ \A k \in Listeners : k < l => listeners[k].pc # "idle"

getRestaurantsSnapshot(l, cb, filters) ==
  /\ NextListener(l)
  /\ listeners' = [listeners EXCEPT ![l] =
       IF NotCallable(cb)
         THEN ReturnedUndefined("collection", cb, Undefined)
         ELSE onSnapshot("collection", cb, Undefined,
                         applyQueryFilters(collectionQuery(RestaurantsCollection), filters))]
  /\ ListenersUnchanged

getRestaurantSnapshotById(l, restaurantId, cb) ==
  /\ NextListener(l)
  /\ listeners' = [listeners EXCEPT ![l] =
       IF InvalidId(restaurantId)
         THEN ReturnedUndefined("document", cb, restaurantId)
         ELSE onSnapshot("document", cb, restaurantId, << >>)]
  /\ ListenersUnchanged

getReviewsSnapshotByRestaurantId(l, restaurantId, cb) ==
  /\ NextListener(l)
  /\ listeners' = [listeners EXCEPT ![l] =
       IF InvalidId(restaurantId)
         THEN ReturnedUndefined("reviews", cb, restaurantId)
         ELSE onSnapshot("reviews", cb, restaurantId, ReviewsQuery(restaurantId))]
  /\ ListenersUnchanged

\* variant: of the listeners of one target only the first is served
MustSendDeduplicated(l, snapshot) ==
  /\ listeners[l].sent.sent => listeners[l].sent.snapshot # snapshot
  /\ \A k \in Listeners :
       (k < l /\ listeners[k].pc = "active") =>
         <<listeners[k].kind, listeners[k].restaurantId, listeners[k].q>>
           # <<listeners[l].kind, listeners[l].restaurantId, listeners[l].q>>

\* a listener is due its first snapshot, and a further one whenever its
\* target differs from the snapshot sent last; each listener on its own
MustSend(l, snapshot) ==
  listeners[l].sent.sent => listeners[l].sent.snapshot # snapshot

\* the backend sends a listener a snapshot of the current state of its target
SnapshotSent(l) ==
  /\ listeners[l].pc = "active"
  /\ Len(listeners[l].queue) < MaxPending
  /\ LET snap == [sent |-> TRUE, stamp |-> CommitStamp,
                  snapshot |-> Snapshot(listeners[l])]
     IN /\ MustSend(l, snap.snapshot)
        /\ listeners' = [listeners EXCEPT ![l] =
             [@ EXCEPT !.sent = snap, !.queue = Append(@, snap)]]
  /\ ListenersUnchanged

\* variant: a missing document is mapped like an existing one
DocumentCallbackArgUnchecked(docSnap) ==
  [id |-> docSnap.id, timestamp |-> ToDate(0)]

\* the listener of getRestaurantSnapshotById: null, or the plain object
DocumentCallbackArg(docSnap) ==
  IF ~docSnap.exists THEN Null ELSE PlainObject(docSnap.id, docSnap.data)

\* the listener of the two query subscriptions: docs.map(...)
QueryCallbackArg(docs) ==
  [i \in 1 .. Len(docs) |-> PlainObject(docs[i].id, docs[i].data)]

CallbackArg(kind, snapshot) ==
  IF kind = "document" THEN DocumentCallbackArg(snapshot) ELSE QueryCallbackArg(snapshot)

\* variant: the newest snapshot is handed over first
NextPendingNewest(queue) == Len(queue)

\* snapshots are handed to the listener in the order the backend sent them
NextPending(queue) == 1

Without(queue, i) == SubSeq(queue, 1, i - 1) \o SubSeq(queue, i + 1, Len(queue))

\* The SDK runs the listener on the next snapshot; the listener maps it and
\* calls cb, which throws a TypeError when cb is not a function.
SnapshotDelivered(l) ==
  /\ listeners[l].pc = "active"
  /\ listeners[l].queue # << >>
  /\ LET s == listeners[l]
         i == NextPending(s.queue)
         snap == s.queue[i]
     IN /\ listeners' = [listeners EXCEPT ![l] =
             IF ~NotCallable(s.cb)
               THEN [@ EXCEPT !.queue = Without(s.queue, i),
                              !.last = [delivered |-> TRUE, stamp |-> snap.stamp,
                                        value |-> CallbackArg(s.kind, snap.snapshot)]]
               ELSE [@ EXCEPT !.queue = Without(s.queue, i), !.error = "TypeError"]]
        \* (data) => { setRestaurantDetails(data); }
        /\ component' = IF s.cb = "setRestaurantDetails"
             THEN [component EXCEPT
                     !.restaurantDetails = CallbackArg(s.kind, snap.snapshot)]
             ELSE component
  /\ UNCHANGED <<restaurants, ratings, now, sub, photo, seed, seeded, qcall, tomb,
                 image>>

\* variant: the handle does nothing
CloseNothing(s) == s

\* variant: a closed listener cannot be closed again
CloseOnce(s) ==
  IF s.pc = "closed" THEN [s EXCEPT !.error = "already-unsubscribed"]
  ELSE [s EXCEPT !.pc = "closed", !.queue = << >>]

\* the unsubscribe function: the listener is removed, pending snapshots dropped
Close(s) == [s EXCEPT !.pc = "closed", !.queue = << >>]

\* a call of the handle a subscribe call returned
Unsubscribe(l) ==
  /\ listeners[l].pc \in {"active", "closed"}
  /\ listeners[l].unsubs < MaxUnsubscribe
  /\ listeners' = [listeners EXCEPT ![l] = [Close(@) EXCEPT !.unsubs = @ + 1]]
  /\ ListenersUnchanged

\* The restaurant of the start is deleted from outside the application
DeleteRestaurant ==
  /\ Exists(FirstRestaurant)
  /\ restaurants' = [r \in DOMAIN restaurants \ {FirstRestaurant} |-> restaurants[r]]
  /\ tomb' = tomb + restaurants[FirstRestaurant].version + 1
  /\ UNCHANGED <<ratings, now, sub, photo, seed, seeded, qcall, listeners, image,
                 component>>

(* ----------------------- what the claims speak of ---------------------- *)
Aggregate(r, f) == FieldOrZero(restaurants[r].data, f)

\* the aggregate the restaurant was created with
Prior(r, f) == FieldOrZero(seeded[r].restaurantData, f)

RatingDocs(r) == {k \in DOMAIN ratings : ratings[k].parent = r}

ClientDocs(r) == {k \in RatingDocs(r) : k[1] = "client"}

SeedDocs(r) == {k \in RatingDocs(r) : k[1] = "seed"}

Resolved(c) == sub[c].pc = "returned" /\ sub[c].result = "resolved"

Failed(c) == sub[c].pc = "returned" /\ sub[c].result # "resolved"

\* the calls that committed on restaurant r
Committed(r) == {c \in Clients : Resolved(c) /\ sub[c].restaurantId = r}

RECURSIVE SumOfCalls(_)
SumOfCalls(cs) ==
  IF cs = {} THEN 0
  ELSE LET c == CHOOSE x \in cs : TRUE
       IN Number(sub[c].review.rating) + SumOfCalls(cs \ {c})

RECURSIVE SumOfDocs(_)
SumOfDocs(ks) ==
  IF ks = {} THEN 0
  ELSE LET k == CHOOSE x \in ks : TRUE
       IN Number(ratings[k].data.rating) + SumOfDocs(ks \ {k})

StoreUnchanged == restaurants' = restaurants /\ ratings' = ratings

\* client c commits in this step
Commits(c) == sub[c].pc = "commit" /\ sub'[c].pc = "returned" /\ sub'[c].result = "resolved"

(* ------------------------------- claims -------------------------------- *)
\* C1: whatever the interleaving of reads, retries and commits, a restaurant
\* holds its prior numRatings plus the number of calls that committed on it,
\* its prior sumRating plus the sum of their ratings, and their quotient as
\* avgRating: no committed submission is lost.
C1_NoLostIncrement ==
  \A r \in DOMAIN restaurants :
    LET n == Prior(r, "numRatings") + Cardinality(Committed(r))
        t == Prior(r, "sumRating") + SumOfCalls(Committed(r))
    IN /\ Aggregate(r, "numRatings") = n
       /\ Aggregate(r, "sumRating") = t
       /\ Committed(r) # {} => restaurants[r].data.avgRating = Quotient(t, n)

\* two calls committed on the same restaurant
C1_Witness ==
  \E c, d \in Clients :
    /\ c # d
    /\ Resolved(c) /\ Resolved(d)
    /\ sub[c].restaurantId = sub[d].restaurantId
    /\ sub[c].review # sub[d].review

\* C2: the commit of one call takes the restaurant from (n, s), a missing
\* field read as 0, to (n + 1, s + rating, (s + rating) / (n + 1)) and adds
\* exactly one rating document, under that restaurant, carrying review.rating.
C2_SingleSubmit ==
  [][\A c \in Clients :
       Commits(c) =>
         LET r == sub[c].restaurantId
             n == Aggregate(r, "numRatings")
             t == Aggregate(r, "sumRating")
             v == Number(sub[c].review.rating)
             d == restaurants'[r].data
         IN /\ d.numRatings = n + 1
            /\ d.sumRating = t + v
            /\ d.avgRating = Quotient(t + v, n + 1)
            /\ DOMAIN ratings' \ DOMAIN ratings = {sub[c].newRatingDocument}
            /\ ratings'[sub[c].newRatingDocument].parent = r
            /\ ratings'[sub[c].newRatingDocument].data.rating = sub[c].review.rating
            /\ \A k \in DOMAIN ratings : ratings'[k] = ratings[k]]_vars

\* {2, 7, 3.5} plus a rating of 5 has given {3, 12, 4}
C2_Witness ==
  /\ seeded[FirstRestaurant] = FakeRated
  /\ restaurants[FirstRestaurant].data.numRatings = 3
  /\ restaurants[FirstRestaurant].data.sumRating = 12
  /\ restaurants[FirstRestaurant].data.avgRating = [num |-> 4, den |-> 1]
  /\ \E c \in Clients :
       /\ Resolved(c)
       /\ sub[c].review.rating = Str("5")
       /\ ClientDocs(FirstRestaurant) = {sub[c].newRatingDocument}

\* C3: a call with an empty or absent restaurantId, or an absent review,
\* returns a rejection in its first step: no transaction is started and no
\* restaurant or rating document is written.
C3_InvalidInput ==
  [][\A c \in Clients :
       (/\ sub[c].pc = "idle"
        /\ sub'[c].pc # "idle"
        /\ Falsy(sub'[c].restaurantId) \/ sub'[c].review = NoReview)
       => /\ sub'[c].pc = "returned"
          /\ sub'[c].result \in {"No restaurant ID has been provided.",
                                 "A valid review has not been provided."}
          /\ sub'[c].newRatingDocument = NoRef
          /\ StoreUnchanged]_vars

\* calls were rejected for an empty id, an absent id and an absent review
C3_Witness ==
  \E c, d \in Clients :
    /\ sub[c].pc = "returned" /\ sub[c].restaurantId = ""
    /\ sub[c].result = "No restaurant ID has been provided."
    /\ sub[d].pc = "returned" /\ sub[d].restaurantId \in DOMAIN restaurants
    /\ sub[d].review = NoReview
    /\ sub[d].result = "A valid review has not been provided."

\* the writes to restaurant r that the photo update made
PhotoWrites(r) ==
  IF photo.pc = "returned" /\ photo.result = "resolved" /\ photo.restaurantId = r
    THEN 1 ELSE 0

\* C4: the rating document of a call exists exactly when the call has
\* committed, and every restaurant has been written once per rating document
\* the calls put under it (retries add neither a write nor a document).
C4_Atomic ==
  /\ \A c \in Clients :
       sub[c].pc # "idle" =>
         (ClientRatingId(c) \in DOMAIN ratings <=> Resolved(c))
  /\ \A c \in Clients :
       Resolved(c) => ratings[ClientRatingId(c)].parent = sub[c].restaurantId
  /\ \A r \in DOMAIN restaurants :
       /\ restaurants[r].version = 1 + Cardinality(ClientDocs(r)) + PhotoWrites(r)
       /\ Aggregate(r, "numRatings") - Prior(r, "numRatings") = Cardinality(ClientDocs(r))

\* a call committed while another call on the same restaurant is being retried
C4_Witness ==
  \E c, d \in Clients :
    /\ Resolved(c)
    /\ sub[d].pc = "runTransaction" /\ sub[d].attempts > 0
    /\ sub[d].restaurantId = sub[c].restaurantId

\* C5: when the transaction cannot commit, by contention or by a backend
\* failure, the store is unchanged by the failing step and by the catch
\* block, the caller gets the error of the transaction, and the rating
\* document of the call does not exist.
C5_FailurePropagates ==
  [][\A c \in Clients :
       /\ (sub'[c].pc = "catch" /\ sub[c].pc # "catch")
            => StoreUnchanged /\ sub'[c].error # "none"
       /\ (sub[c].pc = "catch" /\ sub'[c].pc # "catch")
            => /\ StoreUnchanged
               /\ sub'[c].pc = "returned"
               /\ sub'[c].result = sub[c].error
               /\ sub'[c].result # "resolved"
               /\ ClientRatingId(c) \notin DOMAIN ratings']_vars

\* a call failed by contention, after the photo update and another call
\* had each written the restaurant it read
C5_Witness ==
  \E c, d \in Clients :
    /\ sub[c].pc = "returned" /\ sub[c].result = "aborted"
    /\ Resolved(d) /\ sub[d].restaurantId = sub[c].restaurantId
    /\ PhotoWrites(sub[c].restaurantId) = 1

\* C6: an attempt that reads a restaurant that does not exist ends the
\* transaction with an error and writes nothing; the call is rejected, its
\* rating document is never written, and restaurants exist only where the
\* seeding created them.
C6_MissingRestaurant ==
  [][/\ \A c \in Clients :
          /\ (/\ sub[c].pc = "runTransaction"
              /\ ~Exists(sub[c].restaurantId)
              /\ sub'[c] # sub[c])
               => /\ sub'[c].pc = "catch"
                  /\ sub'[c].error \in {"not-found", "unavailable"}
                  /\ StoreUnchanged
          /\ sub'[c].result = "not-found" =>
               ClientRatingId(c) \notin DOMAIN ratings'
     /\ DOMAIN restaurants' = DOMAIN seeded']_vars

\* a call was rejected for a missing restaurant that the seeding has created since
C6_Witness ==
  \E c \in Clients :
    /\ sub[c].pc = "returned" /\ sub[c].result = "not-found"
    /\ Exists(sub[c].restaurantId)


\* the aggregate of restaurant r is the one its rating documents give
Derivable(r) ==
  /\ Aggregate(r, "numRatings") = Cardinality(RatingDocs(r))
  /\ Aggregate(r, "sumRating") = SumOfDocs(RatingDocs(r))

\* avgRating = sumRating / numRatings whenever numRatings > 0
AverageDerived(r) ==
  Aggregate(r, "numRatings") > 0 =>
    restaurants[r].data.avgRating =
      Quotient(Aggregate(r, "sumRating"), Aggregate(r, "numRatings"))

\* every rating of the entry restaurant r was created from has been written
FullySeeded(r) == Cardinality(SeedDocs(r)) = Len(seeded[r].ratingsData)

NewRatingDocs == DOMAIN ratings' \ DOMAIN ratings

AggregateFieldsOf(d) ==
  [f \in {"numRatings", "sumRating", "avgRating"} \cap DOMAIN d |-> d[f]]

\* C9: a step of the photo update writes no rating document and no
\* restaurant but its target, and of the target only the photo field, which
\* becomes the given url; the aggregate fields of an existing restaurant
\* change only in the commit of a call on that restaurant.
C9_PhotoOnly ==
  [][/\ photo' # photo =>
          LET r == photo'.restaurantId IN
            /\ ratings' = ratings
            /\ DOMAIN restaurants' = DOMAIN restaurants
            /\ \A x \in DOMAIN restaurants \ {r} : restaurants'[x] = restaurants[x]
            /\ r \in DOMAIN restaurants =>
                 /\ DOMAIN restaurants'[r].data = DOMAIN restaurants[r].data
                 /\ \A f \in DOMAIN restaurants[r].data \ {"photo"} :
                      restaurants'[r].data[f] = restaurants[r].data[f]
                 /\ photo'.result = "resolved" =>
                      restaurants'[r].data.photo = photo'.url
     /\ \A r \in DOMAIN restaurants :
          AggregateFieldsOf(restaurants'[r].data) # AggregateFieldsOf(restaurants[r].data)
            => \E c \in Clients : Commits(c) /\ sub[c].restaurantId = r]_vars

\* the photo of a rated restaurant was replaced while another restaurant exists
C9_Witness ==
  /\ photo.pc = "returned" /\ photo.result = "resolved"
  /\ restaurants[photo.restaurantId].data.photo = photo.url
  /\ Aggregate(photo.restaurantId, "numRatings") > 0
  /\ \E x \in DOMAIN restaurants :
       x # photo.restaurantId /\ Aggregate(x, "numRatings") > 0

\* C10: with the photo update and the calls on one restaurant interleaved
\* in any way, the photo is the given url once the update has succeeded, the
\* seeded one before, and the aggregate counts every call that committed.
C10_PhotoRace ==
  \A r \in DOMAIN restaurants :
    /\ restaurants[r].data.photo =
         IF PhotoWrites(r) = 1 THEN photo.url ELSE seeded[r].restaurantData.photo
    /\ Aggregate(r, "numRatings") - Cardinality(Committed(r)) = Prior(r, "numRatings")
    /\ Aggregate(r, "sumRating") - SumOfCalls(Committed(r)) = Prior(r, "sumRating")

\* the photo update and two calls on the same restaurant have all succeeded
C10_Witness ==
  /\ photo.pc = "returned" /\ photo.result = "resolved"
  /\ \A c \in Clients : Resolved(c) /\ sub[c].restaurantId = photo.restaurantId

\* the base query of getRestaurants and getRestaurantsSnapshot
BaseQuery == collectionQuery(RestaurantsCollection)

\* the step of getRestaurants that builds the query
BuildsQuery == qcall.pc # "getDocs" /\ qcall'.pc = "getDocs"

\* the step of getRestaurants that runs it
RunsQuery == qcall.pc = "getDocs" /\ qcall'.pc = "returned"

\* the ordering clause the sort value stands for, the default included
OrderingFor(sort) ==
  IF sort = Str("Review") THEN orderBy("numRatings", "desc")
  ELSE orderBy("avgRating", "desc")

\* the same properties in another insertion order
Reordered(obj, p) == [i \in 1 .. Len(obj) |-> obj[p[i]]]

\* the restaurants that equal every provided filter value
ReferenceFilter(filters) ==
  {r \in DOMAIN restaurants :
     \A f \in {"category", "city", "price"} :
       Truthy(Get(filters, f)) =>
         /\ f \in DOMAIN restaurants[r].data
         /\ FieldValue(restaurants[r].data, f) = Get(filters, f)}

ResultIds(results) == {results[i].id : i \in 1 .. Len(results)}

\* C11: every query built from a filters object carries exactly one ordering
\* clause: numRatings descending for sort "Review", avgRating descending for
\* sort "Rating", for an absent sort and for any other sort value.
C11_ExactlyOneOrdering ==
  qcall.pc # "idle" =>
    OrderClauses(qcall.q) = <<OrderingFor(Get(qcall.filters, "sort"))>>

\* C12: building the query is a function of the filter values alone: the
\* same properties in any insertion order give the same query, the query
\* extends the base query, which stays as it was, and no document changes.
C12_PureDeterministic ==
  [][BuildsQuery =>
       /\ \A p \in Permutations(1 .. Len(qcall'.filters)) :
            applyQueryFilters(BaseQuery, Reordered(qcall'.filters, p)) = qcall'.q
       /\ qcall'.q.collection = BaseQuery.collection
       /\ BaseQuery.constraints = << >>
       /\ restaurants' = restaurants
       /\ ratings' = ratings]_vars

\* a query was built from four properties with sort as the first key
C12_Witness ==
  /\ qcall.pc = "getDocs"
  /\ Len(qcall.filters) = 4
  /\ qcall.filters[1].key = "sort"
  /\ Len(WhereClauses(qcall.q)) = 3
  /\ Len(OrderClauses(qcall.q)) = 1

\* C13: the restaurants a read returns are exactly those that equal every
\* provided value of category, city and price.
C13_ResultIsReferenceFilter ==
  [][RunsQuery => ResultIds(qcall'.results) = ReferenceFilter(qcall.filters)]_vars

\* a step in which the listener of subscription l ran on a snapshot
Delivers(l) ==
  /\ listeners[l].pc = "active"
  /\ listeners'[l].pc = "active"
  /\ Len(listeners'[l].queue) < Len(listeners[l].queue)

\* the snapshot the listener ran on
Delivered(l) == listeners[l].queue[NextPending(listeners[l].queue)].snapshot

Callable(l) == listeners[l].cb = "function"

\* C14: when the listener of a document subscription runs on a snapshot of a
\* restaurant that does not exist (never created, or deleted since), the
\* observer is called with null and with nothing else, no error is raised
\* and the subscription stays active; for an existing restaurant it is
\* called with the plain object of the document.
C14_NotFoundIsData ==
  [][\A l \in Listeners :
       (Delivers(l) /\ listeners[l].kind = "document" /\ Callable(l)) =>
         /\ listeners'[l].last.delivered
         /\ (listeners'[l].last.value = Null) <=> ~Delivered(l).exists
         /\ listeners'[l].error = "none"
         /\ listeners'[l].pc = "active"]_vars

\* the observer of a subscription made while the restaurant existed has been
\* called with null after the restaurant was deleted
C14_Witness ==
  \E l \in Listeners :
    /\ listeners[l].pc = "active"
    /\ listeners[l].kind = "document"
    /\ listeners[l].restaurantId = FirstRestaurant
    /\ ~Exists(FirstRestaurant)
    /\ listeners[l].last.delivered
    /\ listeners[l].since < listeners[l].last.stamp
    /\ listeners[l].last.value = Null
    /\ listeners[l].error = "none"

\* a step in which the handle of subscription l was called
Unsubscribes(l) == listeners'[l].unsubs = listeners[l].unsubs + 1

\* C15: a call of the handle of any subscription raises no error and leaves
\* the subscription closed with nothing pending; a second or later call
\* leaves everything as the first call left it (only the number of calls
\* grows), also when the watched restaurant is gone; no call changes a
\* document.
C15_UnsubscribeIdempotent ==
  [][\A l \in Listeners :
       Unsubscribes(l) =>
         /\ listeners'[l].pc = "closed"
         /\ listeners'[l].queue = << >>
         /\ listeners'[l].error = listeners[l].error
         /\ listeners'[l].last = listeners[l].last
         /\ listeners[l].pc = "closed" =>
              listeners'[l] = [listeners[l] EXCEPT !.unsubs = @ + 1]
         /\ UNCHANGED <<restaurants, ratings, tomb>>]_vars

\* the handle of a subscription whose restaurant was deleted has been called
\* a second time
C15_Witness ==
  \E l \in Listeners :
    /\ listeners[l].pc = "closed"
    /\ listeners[l].unsubs >= 2
    /\ listeners[l].kind = "document"
    /\ listeners[l].last.delivered
    /\ ~Exists(listeners[l].restaurantId)
    /\ listeners[l].error = "none"

\* the subscribe call of l returned without registering anything
NothingRegistered(l) ==
  /\ listeners[l].pc = "returned"
  /\ listeners[l].sent = NoSnapshot
  /\ listeners[l].queue = << >>
  /\ listeners[l].last = NoDelivery
  /\ listeners[l].error = "none"
  /\ listeners[l].unsubs = 0

\* C16: a subscribe call of any of the three kinds with an observer that is
\* not a function is rejected by the call itself: nothing is registered and
\* no error appears later, at a delivery.
C16_RejectedAtSubscribe ==
  \A l \in Listeners :
    (listeners[l].pc # "idle" /\ ~Callable(l)) => NothingRegistered(l)

\* C17: a document or reviews subscribe call with an empty or undefined
\* restaurant id returns without a subscription: no listener is registered,
\* no snapshot is sent or pending, the observer is never called.
C17_InvalidIdNoSubscription ==
  \A l \in Listeners :
    (/\ listeners[l].pc # "idle"
     /\ listeners[l].kind \in {"document", "reviews"}
     /\ Falsy(listeners[l].restaurantId)) => NothingRegistered(l)

\* a reviews subscribe call with the empty id and a function has returned
C17_Witness ==
  \E l \in Listeners :
    /\ listeners[l].pc = "returned"
    /\ listeners[l].kind = "reviews"
    /\ listeners[l].restaurantId = ""
    /\ Callable(l)

\* a step in which the backend sent subscription l a snapshot
Sends(l) == Len(listeners'[l].queue) > Len(listeners[l].queue)

\* the field a list subscription is to be ordered by, descending
OrderingField(s) ==
  IF s.kind = "reviews" THEN "timestamp"
  ELSE IF OrderClauses(s.q) = <<orderBy("numRatings", "desc")>> THEN "numRatings"
  ELSE "avgRating"

\* no element of the list has a smaller value of f than a later element
Descending(list, f) ==
  \A i, j \in 1 .. Len(list) :
    (i < j /\ f \in DOMAIN list[i] /\ f \in DOMAIN list[j]) =>
      ~FractionLess(IF f = "timestamp" THEN [num |-> list[i][f].ms, den |-> 1]
                                       ELSE OrderValue(list[i], f),
                    IF f = "timestamp" THEN [num |-> list[j][f].ms, den |-> 1]
                                       ELSE OrderValue(list[j], f))

\* C18: every snapshot sent to a list subscription is the full current result
\* of its query (for reviews: all rating documents of the restaurant and no
\* others), and every list handed to the observer keeps the documents of the
\* snapshot in their order and is in descending order of avgRating, of
\* numRatings for sort "Review", of timestamp for reviews.
C18_FullOrderedResult ==
  [][\A l \in Listeners :
       /\ (Sends(l) /\ listeners[l].kind # "document") =>
            LET snapshot == listeners'[l].sent.snapshot IN
              /\ {snapshot[i].id : i \in 1 .. Len(snapshot)} = Selected(listeners[l].q)
              /\ listeners[l].kind = "reviews" =>
                   {snapshot[i].id : i \in 1 .. Len(snapshot)}
                     = RatingDocs(listeners[l].restaurantId)
       /\ (Delivers(l) /\ listeners[l].kind # "document" /\ Callable(l)) =>
            LET list == listeners'[l].last.value IN
              /\ Len(list) = Len(Delivered(l))
              /\ \A i \in 1 .. Len(list) : list[i].id = Delivered(l)[i].id
              /\ Descending(list, OrderingField(listeners[l]))]_vars

\* the restaurant object b shows no older state of the document than a:
\* a deleted restaurant stays deleted, a photo that was set stays set, the
\* number of ratings does not go down
NotOlder(a, b) ==
  /\ a = Null => b = Null
  /\ (a # Null /\ b # Null) =>
       /\ a.photo \in PhotoUrls => b.photo = a.photo
       /\ FieldOrZero(b, "numRatings") >= FieldOrZero(a, "numRatings")

UpToDate(l) ==
  /\ listeners[l].last.delivered
  /\ listeners[l].last.value = CallbackArg(listeners[l].kind, Snapshot(listeners[l]))

C21_ConsistentMonotoneAggregate ==
  [][\A l \in Listeners :
       (Delivers(l) /\ listeners[l].kind = "document" /\ Callable(l)
          /\ listeners'[l].last.value # Null) =>
         LET new == listeners'[l].last.value IN
           /\ FieldOrZero(new, "numRatings") > 0 =>
                /\ {"sumRating", "avgRating"} \subseteq DOMAIN new
                /\ new.avgRating = Quotient(new.sumRating, new.numRatings)
           /\ (listeners[l].last.delivered /\ listeners[l].last.value # Null) =>
                FieldOrZero(new, "numRatings")
                  >= FieldOrZero(listeners[l].last.value, "numRatings")]_vars

\* a subscription made before two clients committed their reviews has been
\* called with the aggregate of both
C21_Witness ==
  \E l \in Listeners :
    /\ \A c \in {1, 2} : sub[c].result = "resolved"
    /\ listeners[l].kind = "document"
    /\ listeners[l].last.delivered
    /\ listeners[l].since < listeners[l].last.stamp
    /\ listeners[l].last.value # Null
    /\ listeners[l].last.value.numRatings = Prior(FirstRestaurant, "numRatings") + 2

\* C22: no step of a review submission (its retries included), of the photo
\* update or of a subscription removes a rating document or changes one:
\* every rating document of a state is in the next state with the same
\* parent and the same fields.
C22_ReviewsImmutable ==
  [][\A k \in DOMAIN ratings :
       k \in DOMAIN ratings' /\ ratings'[k] = ratings[k]]_vars

\* next to the seeded rating documents a client has written its review, the
\* photo was set and the observer of a reviews subscription was called
C22_Witness ==
  /\ ClientRatingId(1) \in DOMAIN ratings
  /\ SeedRatingId(0, 1) \in DOMAIN ratings
  /\ photo.result = "resolved"
  /\ listeners[1].kind = "reviews"
  /\ listeners[1].last.delivered
  /\ Len(listeners[1].last.value) = 3

\* C23: every call that has started its transaction returns, with the
\* commit made or with the failure raised, whatever the other clients
\* submit and whether or not a subscription is closed meanwhile.
C23_SubmitTerminates ==
  \A c \in Clients :
    (sub[c].pc \in {"runTransaction", "commit", "catch"})
      ~> (/\ sub[c].pc = "returned"
          /\ sub[c].result \in {"resolved", "not-found", "aborted", "unavailable"})

\* two clients submitted for the same restaurant and both committed, and the
\* subscription to the restaurant was closed
C23_Witness ==
  /\ \A c \in {1, 2} :
       /\ sub[c].restaurantId = FirstRestaurant
       /\ sub[c].pc = "returned"
       /\ sub[c].result = "resolved"
  /\ listeners[1].pc = "closed"

\* C24: a step of a submission for one restaurant leaves every other
\* restaurant document and every rating document that exists as it is, and
\* a rating document it adds is under its own restaurant; a submission is
\* retried or aborted only when another client committed a review for the
\* same restaurant.
C24_OtherRestaurantsUntouched ==
  [][\A c \in Clients :
       /\ sub'[c] # sub[c] =>
            /\ \A r \in DOMAIN restaurants \ {sub'[c].restaurantId} :
                 r \in DOMAIN restaurants' /\ restaurants'[r] = restaurants[r]
            /\ \A k \in DOMAIN ratings :
                 k \in DOMAIN ratings' /\ ratings'[k] = ratings[k]
            /\ \A k \in DOMAIN ratings' \ DOMAIN ratings :
                 ratings'[k].parent = sub'[c].restaurantId
       /\ (sub'[c].attempts > 0 \/ sub'[c].error = "aborted"
             \/ sub'[c].result = "aborted") =>
            \E d \in Clients \ {c} :
              /\ sub'[d].restaurantId = sub'[c].restaurantId
              /\ sub'[d].result = "resolved"]_vars

\* two clients have committed reviews for two different restaurants
C24_Witness ==
  /\ sub[1].result = "resolved"
  /\ sub[2].result = "resolved"
  /\ sub[1].restaurantId # sub[2].restaurantId
  /\ \A c \in {1, 2} : restaurants[sub[c].restaurantId].version = 2

\* C25: once the handle of a subscription has been called, no step calls
\* its observer or raises an error in it and nothing is pending for it,
\* whatever is written afterwards; the call leaves every other subscription
\* as it is, its pending snapshots included.
C25_SilentAfterUnsubscribe ==
  [][\A l \in Listeners :
       /\ listeners[l].unsubs > 0 =>
            /\ listeners'[l].last = listeners[l].last
            /\ listeners'[l].error = listeners[l].error
            /\ listeners'[l].queue = << >>
       /\ Unsubscribes(l) =>
            \A k \in Listeners \ {l} : listeners'[k] = listeners[k]]_vars

\* the first subscription was closed having seen the old photo only; the
\* second, still active, was called with the list that shows the new photo
C25_Witness ==
  /\ listeners[1].pc = "closed"
  /\ listeners[1].last.delivered
  /\ Len(listeners[1].last.value) = 1
  /\ listeners[1].last.value[1].photo # "url1"
  /\ listeners[2].pc = "active"
  /\ listeners[2].last.delivered
  /\ Len(listeners[2].last.value) = 1
  /\ listeners[2].last.value[1].photo = "url1"
  /\ listeners[2].last.stamp > listeners[1].last.stamp

\* a restaurant document whose photo is not the one it was created with
PhotoWritten ==
  \E r \in DOMAIN restaurants : restaurants[r].data.photo # seeded[r].restaurantData.photo

\* the step writes the photo field of restaurant r
WritesPhoto(r) ==
  /\ r \in DOMAIN restaurants'
  /\ restaurants'[r].data.photo # restaurants[r].data.photo

\* C26: updateRestaurantImage writes the photo reference of the restaurant
\* only after the upload has succeeded, to the restaurant it was given and
\* with the URL the upload produced; when the restaurant id is missing, the
\* image is missing or unnamed, or the upload fails, the call returns
\* undefined without a reference update having been started and without
\* any photo having been written.
C26_ReferenceAfterUpload ==
  [][/\ \A r \in DOMAIN restaurants :
          WritesPhoto(r) =>
            /\ image.pc = "updateRestaurantImageReference"
            /\ r = image.restaurantId
            /\ ~Falsy(r)
            /\ image.image # NoImage
            /\ ~Falsy(image.image.name)
            /\ restaurants'[r].data.photo = getDownloadURL(filePath(r, image.image))
            /\ restaurants'[r].data.photo = image.publicImageUrl
     /\ (image'.pc = "returned" /\ image'.publicImageUrl = Undefined) =>
            /\ image'.result = Undefined
            /\ photo' = IdlePhoto
            /\ ~PhotoWritten']_vars

\* the call has returned the URL of the upload and the document holds it
C26_Witness ==
  /\ image.pc = "returned"
  /\ image.publicImageUrl # Undefined
  /\ image.result = getDownloadURL(filePath(FirstRestaurant, image.image))
  /\ restaurants[FirstRestaurant].data.photo = image.result
  /\ PhotoWritten

\* the fields of the aggregate
AggregateFieldNames == {"numRatings", "sumRating", "avgRating"}

\* objects a and b have the same aggregate: the same fields, the same values
SameAggregate(a, b) ==
  \A f \in AggregateFieldNames :
    /\ (f \in DOMAIN a) = (f \in DOMAIN b)
    /\ f \in DOMAIN a => a[f] = b[f]

\* the latest value the document subscription of the component delivered
LatestSnapshot == listeners[1].last.value

\* C27: once the document subscription of the Restaurant component has
\* delivered a snapshot, the aggregate fields of the details the component
\* holds are those of the latest snapshot delivered, also after an image
\* upload started by handleRestaurantImage has completed.
C27_NeverOlderThanSnapshot ==
  (/\ listeners[1].cb = "setRestaurantDetails"
   /\ listeners[1].last.delivered
   /\ LatestSnapshot # Null)
    => SameAggregate(component.restaurantDetails, LatestSnapshot)

(* --------------------------- specifications ---------------------------- *)
\* Any number of clients and the photo update, on the seeded database
Next ==
  \/ \E c \in Clients, rid \in RestaurantIdArgs, review \in ReviewArgs :
       AddReviewToRestaurant(c, rid, review)
  \/ \E c \in Clients : TransactionGet(c)
  \/ \E c \in Clients : TransactionCommit(c)
  \/ \E c \in Clients : TransactionUnavailable(c)
  \/ \E c \in Clients : CatchRethrow(c)
  \/ \E rid \in RestaurantIdArgs, url \in PhotoUrls :
       UpdateRestaurantImageReference(rid, url)
  \/ UpdateDoc
  \/ UpdateDocUnavailable

Spec == Init /\ [][Next]_vars

\* A seeding run in progress, with one client and the photo update beside it
NextSeed ==
  \/ \E rid \in RestaurantIdArgs, review \in ReviewArgs :
       AddReviewToRestaurant(1, rid, review)
  \/ TransactionGet(1)
  \/ TransactionCommit(1)
  \/ TransactionUnavailable(1)
  \/ CatchRethrow(1)
  \/ \E rid \in RestaurantIdArgs, url \in PhotoUrls :
       UpdateRestaurantImageReference(rid, url)
  \/ UpdateDoc
  \/ UpdateDocUnavailable
  \/ AddFakeRestaurantsAndReviews
  \/ AddRestaurantDoc
  \/ AddRatingDoc
  \/ AddDocFails

SpecSeed == Init /\ [][NextSeed]_vars

\* the reads of the restaurant list, while the database is being seeded
NextQuery ==
  \/ \E filters \in FilterObjects : GetRestaurants(filters)
  \/ GetDocs
  \/ AddFakeRestaurantsAndReviews
  \/ AddRestaurantDoc
  \/ AddRatingDoc
  \/ AddDocFails

SpecQuery == Init /\ [][NextQuery]_vars

\* one subscription of any kind, with one submitter, the photo update and
\* the deletion of the restaurant
NextWatch ==
  \/ \E cb \in Callbacks : getRestaurantsSnapshot(1, cb, << >>)
  \/ \E rid \in RestaurantIdArgs, cb \in Callbacks :
       getRestaurantSnapshotById(1, rid, cb)
  \/ \E rid \in {FirstRestaurant, Undefined, ""}, cb \in Callbacks :
       getReviewsSnapshotByRestaurantId(1, rid, cb)
  \/ SnapshotSent(1)
  \/ SnapshotDelivered(1)
  \/ Unsubscribe(1)
  \/ DeleteRestaurant
  \/ AddReviewToRestaurant(1, FirstRestaurant, Review(Num(4)))
  \/ TransactionGet(1)
  \/ TransactionCommit(1)
  \/ TransactionUnavailable(1)
  \/ CatchRethrow(1)
  \/ UpdateRestaurantImageReference(FirstRestaurant, "url1")
  \/ UpdateDoc
  \/ UpdateDocUnavailable

SpecWatch == Init /\ [][NextWatch]_vars


\* the filters a list subscription may be given
WatchFilters ==
  {<< >>, <<Property("sort", Str("Review"))>>, <<Property("sort", Str("unknown"))>>,
   <<Property("category", Str("Thai"))>>}

\* one list subscription, of restaurants or of reviews, while the database
\* is seeded and a review is submitted
NextFeed ==
  \/ \E filters \in WatchFilters : getRestaurantsSnapshot(1, "function", filters)
  \/ \E rid \in RestIds : getReviewsSnapshotByRestaurantId(1, rid, "function")
  \/ SnapshotSent(1)
  \/ SnapshotDelivered(1)
  \/ \E rid \in RestIds : AddReviewToRestaurant(1, rid, Review(Num(4)))
  \/ TransactionGet(1)
  \/ TransactionCommit(1)
  \/ TransactionUnavailable(1)
  \/ CatchRethrow(1)
  \/ AddFakeRestaurantsAndReviews
  \/ AddRestaurantDoc
  \/ AddRatingDoc
  \/ AddDocFails

SpecFeed == Init /\ [][NextFeed]_vars

\* several subscriptions to the list of restaurants, all kept, with the
\* photo update and the deletion of the restaurant
NextWatchFair ==
  \/ \E l \in Listeners : getRestaurantsSnapshot(l, "function", << >>)
  \/ \E l \in Listeners : SnapshotSent(l)
  \/ \E l \in Listeners : SnapshotDelivered(l)
  \/ DeleteRestaurant
  \/ UpdateRestaurantImageReference(FirstRestaurant, "url1")
  \/ UpdateDoc

\* the SDK hands over every snapshot it holds and the backend sends every
\* snapshot that is due
SpecWatchFair ==
  /\ Init
  /\ [][NextWatchFair]_vars
  /\ \A l \in Listeners : WF_vars(SnapshotSent(l))
  /\ \A l \in Listeners : WF_vars(SnapshotDelivered(l))

\* one subscription to the restaurant while several clients submit reviews
\* for it
NextObserve ==
  \/ getRestaurantSnapshotById(1, FirstRestaurant, "function")
  \/ SnapshotSent(1)
  \/ SnapshotDelivered(1)
  \/ \E c \in Clients, review \in {Review(Str("5")), Review(Num(4))} :
       AddReviewToRestaurant(c, FirstRestaurant, review)
  \/ \E c \in Clients : TransactionGet(c)
  \/ \E c \in Clients : TransactionCommit(c)
  \/ \E c \in Clients : TransactionUnavailable(c)
  \/ \E c \in Clients : CatchRethrow(c)

SpecObserve == Init /\ [][NextObserve]_vars

\* several clients submit reviews, for the restaurant and for one that does
\* not exist, while a subscription is made and closed
NextSubmitFair ==
  \/ \E c \in Clients, rid \in {FirstRestaurant, RestIdSeq[1]} :
       AddReviewToRestaurant(c, rid, Review(Num(4)))
  \/ \E c \in Clients : TransactionGet(c)
  \/ \E c \in Clients : TransactionCommit(c)
  \/ \E c \in Clients : TransactionUnavailable(c)
  \/ \E c \in Clients : CatchRethrow(c)
  \/ getRestaurantSnapshotById(1, FirstRestaurant, "function")
  \/ Unsubscribe(1)

\* the backend answers every read and every commit, and the client runs on
SpecSubmitFair ==
  /\ Init
  /\ [][NextSubmitFair]_vars
  /\ \A c \in Clients : WF_vars(TransactionGet(c))
  /\ \A c \in Clients : WF_vars(TransactionCommit(c))
  /\ \A c \in Clients : WF_vars(CatchRethrow(c))

\* several clients submit reviews for the restaurant of the start and for a
\* seeded one
NextCross ==
  \/ \E c \in Clients, rid \in {FirstRestaurant, RestIdSeq[1]} :
       AddReviewToRestaurant(c, rid, Review(Num(4)))
  \/ \E c \in Clients : TransactionGet(c)
  \/ \E c \in Clients : TransactionCommit(c)
  \/ \E c \in Clients : CatchRethrow(c)
  \/ AddFakeRestaurantsAndReviews
  \/ AddRestaurantDoc
  \/ AddRatingDoc
  \/ AddDocFails

SpecCross == Init /\ [][NextCross]_vars

\* several subscriptions to the list of restaurants, made and closed while
\* the photo of the restaurant is set
NextUnsubscribe ==
  \/ \E l \in Listeners : getRestaurantsSnapshot(l, "function", << >>)
  \/ \E l \in Listeners : SnapshotSent(l)
  \/ \E l \in Listeners : SnapshotDelivered(l)
  \/ \E l \in Listeners : Unsubscribe(l)
  \/ UpdateRestaurantImageReference(FirstRestaurant, "url1")
  \/ UpdateDoc

SpecUnsubscribe == Init /\ [][NextUnsubscribe]_vars

\* the Restaurant component of the seeded restaurant: its document
\* subscription, one call of updateRestaurantImage, by the component or by
\* another caller, and a review submitted meanwhile
NextImage ==
  \/ \E restaurantId \in {FirstRestaurant, RestIdSeq[1], Undefined, ""} :
       \E img \in ImageArgs : UpdateRestaurantImage(restaurantId, img)
  \/ \E file \in Files : HandleRestaurantImage(FirstRestaurant, file)
  \/ UploadImage
  \/ UploadImageFails
  \/ UpdateDoc
  \/ UpdateDocUnavailable
  \/ UpdateRestaurantImageReturns
  \/ HandleRestaurantImageResumes
  \/ getRestaurantSnapshotById(1, FirstRestaurant, "setRestaurantDetails")
  \/ SnapshotSent(1)
  \/ SnapshotDelivered(1)
  \/ AddReviewToRestaurant(1, FirstRestaurant, Review(Num(4)))
  \/ TransactionGet(1)
  \/ TransactionCommit(1)

SpecImage == Init /\ [][NextImage]_vars
====
